---- MODULE Spec2Model ----
(***************************************************************************)
(* Job-tracker backend: the /api/jobs, /api/feedback and /api/admin route  *)
(* handlers over the Job and Feedback collections.                         *)
(*                                                                         *)
(* A handler runs between two awaits without interruption; every await on  *)
(* the persistence layer is a point where other requests interleave.  A    *)
(* handler with one persistence call is one action; PUT /jobs/:id and the  *)
(* two DELETE handlers read first (findOne / findById) and write after a   *)
(* second await, so each is two actions joined by an entry of `inflight`.  *)
(*                                                                         *)
(* Strings are modelled by their shape: [ws, len] is a string of `ws`      *)
(* surrounding whitespace characters and `len` other characters.           *)
(***************************************************************************)
EXTENDS Integers, Sequences, FiniteSets, TLC

VARIABLES
    jobs,       \* Job collection: _id -> document (domain = stored ids)
    nextJobId,  \* the next Job _id to be allocated (ids are never reused)
    creator,    \* history: _id -> the caller whose POST created the job
    feedbacks,  \* Feedback collection: _id -> document
    nextFbId,   \* the next Feedback _id
    inflight,   \* request id -> handler suspended between its read and its write
    nreq,       \* number of POST, PUT and DELETE requests received so far
    emitted,    \* event name -> number of events published so far
    removed,    \* history: number of Job documents actually removed
    last        \* the outcome of the last handler step (response, event, effect)

vars == <<jobs, nextJobId, creator, feedbacks, nextFbId, inflight, nreq,
          emitted, removed, last>>

----------------------------------------------------------------------------
\* Bounds of the model

MaxJobs == 2
MaxReqs == 3
MaxInflight == 2
MaxFeedbacks == 2
MaxStore == 3
MaxPage == 3
MaxLimit == 3

\* Program constants

MaxCompanyLen == 100
MaxNotesLen == 500
MinSalary == 0
MinRating == 1
MaxRating == 5
DefaultLimit == 10
DefaultPage == 1
MaxFeedbackLen == 1000
MaxNameLen == 50

Users == {"u1", "u2"}

JobStatuses == {"applied", "interview", "offer", "rejected", "accepted"}

FeedbackStatuses == {"pending", "reviewed", "resolved"}

EventNames == {"job-created", "job-status-updated", "job-deleted", "new-feedback"}

----------------------------------------------------------------------------
\* Strings

Str(w, n) == [ws |-> w, len |-> n]

\* String.prototype.trim / validator's trim sanitizer / mongoose `trim: true`
Trim(s) == [ws |-> 0, len |-> s.len]

Length(s) == s.ws + s.len

Has(b, f) == f \in DOMAIN b

\* validator.isLength(str, {min, max})
IsLength(s, min, max) == Length(s) >= min /\ Length(s) <= max

ISO8601Dates == {"2024-01-01", "2024-02-01"}

\* validator.isISO8601
IsISO8601(d) == d \in ISO8601Dates

\* validator.isNumeric: an optional sign and digits; negative numbers pass
IsNumeric(v) == v.numeric

\* validator.isInt(str, {min, max}) on a decimal numeral whole.tenth
IsInt(v, min, max) == v.tenth = 0 /\ v.whole >= min /\ v.whole <= max

----------------------------------------------------------------------------
\* Request bodies: a body is a record holding the fields the client sent.

\* The value a validator sees for a string field: '' when the field is absent
StrField(b, f) == IF Has(b, f) THEN b[f] ELSE Str(0, 0)

\* jobValidation: the names of the fields whose rule fails (validationResult)
JobValidationErrors(b) ==
    {f \in {"company", "position"} :
        ~IsLength(Trim(StrField(b, f)), 1, MaxCompanyLen)}
    \cup (IF Has(b, "status") /\ b.status \notin JobStatuses
          THEN {"status"} ELSE {})
    \cup (IF ~Has(b, "appliedDate") \/ ~IsISO8601(b.appliedDate)
          THEN {"appliedDate"} ELSE {})
    \cup (IF Has(b, "notes") /\ ~IsLength(b.notes, 0, MaxNotesLen)
          THEN {"notes"} ELSE {})
    \cup (IF Has(b, "salary") /\ ~IsNumeric(b.salary)
          THEN {"salary"} ELSE {})

\* req.body after the chain's sanitizers (trim on company and position)
Sanitize(b) ==
    [f \in DOMAIN b |->
        IF f \in {"company", "position"} THEN Trim(b[f]) ELSE b[f]]

\* The paths of jobSchema the model keeps (jobUrl carries no constraint)
JobSchemaPaths ==
    {"user", "company", "position", "status", "appliedDate", "notes",
     "salary", "location"}

\* mongoose casting of the given paths: setters (trim) and Number
CastJob(b) ==
    [f \in DOMAIN b \cap JobSchemaPaths |->
        CASE f \in {"company", "position", "location"} -> Trim(b[f])
          [] f = "salary" -> b[f].val
          [] OTHER -> b[f]]

\* jobSchema's validators on the paths present in d
JobPathErrors(d) ==
    {f \in DOMAIN d :
        \/ f \in {"company", "position"}
             /\ (Length(d[f]) = 0 \/ Length(d[f]) > MaxCompanyLen)
        \/ f = "location" /\ Length(d[f]) > MaxCompanyLen
        \/ f = "notes" /\ Length(d[f]) > MaxNotesLen
        \/ f = "status" /\ d[f] \notin JobStatuses
        \/ f = "salary" /\ d[f] < MinSalary}

\* jobSchema's defaults, applied to a new document
JobDefaults == [status |-> "applied", appliedDate |-> "now"]

\* Document validation on Job.create: required paths and the path validators
JobCreateErrors(d) ==
    ({"user", "company", "position", "appliedDate"} \ DOMAIN d)
    \cup JobPathErrors(d)

\* Update validation (runValidators: true) checks only the paths being set
JobUpdateErrors(d) == JobPathErrors(d)

----------------------------------------------------------------------------
\* Outcomes of a handler step

NoDoc == [user |-> "none"]

NoEvent == [name |-> "none"]

NoBody == [none |-> TRUE]

\* The outcome of a step: code = 0 while the handler is suspended at an await
Outcome(op, stage, code, u, id, b) ==
    [op |-> op, stage |-> stage, code |-> code, caller |-> u, id |-> id,
     body |-> b, before |-> NoDoc, event |-> NoEvent, errors |-> {},
     committed |-> FALSE, ioFailed |-> FALSE, data |-> NoDoc, ids |-> <<>>]

DocOf(id) == IF id \in DOMAIN jobs THEN jobs[id] ELSE NoDoc

\* req.io.emit(name, payload) that returns normally
Emit(name) == [emitted EXCEPT ![name] = @ + 1]

\* A lookup by _id alone, as findById would do
FindOwnedByIdOnly(id, u) == IF id \in DOMAIN jobs THEN jobs[id] ELSE NoDoc

\* Job.findOne({_id: id, user: u}): the document, or null
FindOwned(id, u) ==
    IF id \in DOMAIN jobs /\ jobs[id].user = u THEN jobs[id] ELSE NoDoc

Found(d) == d # NoDoc

----------------------------------------------------------------------------
\* The request bodies the clients send

BaseBody ==
    [company |-> Str(0, 4), position |-> Str(0, 8), appliedDate |-> "2024-01-01"]

InterviewBody ==
    [company |-> Str(0, 5), position |-> Str(0, 8),
     appliedDate |-> "2024-02-01", status |-> "interview"]

PaddedBody ==
    [company |-> Str(2, MaxCompanyLen), position |-> Str(0, 8),
     appliedDate |-> "2024-01-01", status |-> "offer",
     notes |-> Str(0, MaxNotesLen), salary |-> [numeric |-> TRUE, val |-> 0],
     location |-> Str(1, MaxCompanyLen)]

UserBodies == {[user |-> u] @@ BaseBody : u \in Users}

StatusOnlyBodies == {[status |-> s] : s \in JobStatuses}

\* Bodies that pass jobValidation and break a jobSchema constraint
SchemaRejectedBodies ==
    {[salary |-> [numeric |-> TRUE, val |-> MinSalary - 1]] @@ BaseBody,
     [location |-> Str(0, MaxCompanyLen + 1)] @@ BaseBody}

\* Bodies that jobValidation rejects
InvalidBodies ==
    {[company |-> Str(0, MaxCompanyLen + 1)] @@ BaseBody,
     [company |-> Str(3, 0)] @@ BaseBody,
     [position |-> Str(0, 8), appliedDate |-> "2024-01-01"],
     [position |-> Str(0, MaxCompanyLen + 1)] @@ BaseBody,
     [status |-> "bogus"] @@ BaseBody,
     [appliedDate |-> "yesterday"] @@ BaseBody,
     [notes |-> Str(0, MaxNotesLen + 1)] @@ BaseBody,
     [salary |-> [numeric |-> FALSE, val |-> 0]] @@ BaseBody,
     [salary |-> [numeric |-> TRUE, val |-> MinSalary - 1],
      status |-> "bogus"] @@ BaseBody}

JobBodies ==
    {BaseBody, InterviewBody, PaddedBody} \cup UserBodies
    \cup StatusOnlyBodies \cup SchemaRejectedBodies \cup InvalidBodies

JobIds == 1..MaxJobs

----------------------------------------------------------------------------
\* /api/jobs handlers.  `fails` says whether the publish primitive throws.

\* POST /api/jobs
PostJob(u, b, fails) ==
    LET errs == JobValidationErrors(b)
        jobData == [user |-> u] @@ Sanitize(b)
        doc == CastJob(jobData) @@ JobDefaults
        out == Outcome("postJob", "write", 0, u, nextJobId, b)
    IN  /\ nreq < MaxReqs
        /\ nreq' = nreq + 1
        /\ UNCHANGED <<feedbacks, nextFbId, inflight, removed>>
        /\ IF errs # {}
           THEN \* validateRequest
                /\ last' = [out EXCEPT !.stage = "validate", !.code = 400,
                                       !.errors = errs]
                /\ UNCHANGED <<jobs, nextJobId, creator, emitted>>
           ELSE IF JobCreateErrors(doc) # {}
           THEN \* Job.create rejects: caught, 500
                /\ last' = [out EXCEPT !.code = 500]
                /\ UNCHANGED <<jobs, nextJobId, creator, emitted>>
           ELSE /\ nextJobId <= MaxJobs
                /\ jobs' = [i \in DOMAIN jobs \cup {nextJobId} |->
                               IF i = nextJobId THEN doc ELSE jobs[i]]
                /\ creator' = [i \in DOMAIN creator \cup {nextJobId} |->
                               IF i = nextJobId THEN u ELSE creator[i]]
                /\ nextJobId' = nextJobId + 1
                /\ IF fails
                   THEN /\ emitted' = emitted
                        /\ last' = [out EXCEPT !.code = 500, !.committed = TRUE,
                                               !.ioFailed = TRUE]
                   ELSE /\ emitted' = Emit("job-created")
                        /\ last' = [out EXCEPT !.code = 201, !.committed = TRUE,
                                       !.data = doc,
                                       !.event = [name |-> "job-created"]]

\* GET /api/jobs/:id
GetJob(u, id) ==
    LET job == FindOwned(id, u)
        out == [Outcome("getJob", "find", 0, u, id, NoBody)
                   EXCEPT !.before = DocOf(id)]
    IN  /\ last' = IF Found(job)
                   THEN [out EXCEPT !.code = 200, !.data = job]
                   ELSE [out EXCEPT !.code = 404]
        /\ UNCHANGED <<jobs, nextJobId, creator, feedbacks, nextFbId, inflight,
                       nreq, emitted, removed>>

\* PUT /api/jobs/:id up to the await of findByIdAndUpdate
PutJobFind(u, id, b) ==
    LET errs == JobValidationErrors(b)
        job == FindOwned(id, u)
        out == [Outcome("putJob", "find", 0, u, id, b)
                   EXCEPT !.before = DocOf(id)]
    IN  /\ nreq < MaxReqs
        /\ nreq' = nreq + 1
        /\ UNCHANGED <<jobs, nextJobId, creator, feedbacks, nextFbId, emitted,
                       removed>>
        /\ IF errs # {}
           THEN /\ last' = [out EXCEPT !.stage = "validate", !.code = 400,
                                       !.errors = errs]
                /\ UNCHANGED inflight
           ELSE IF ~Found(job)
           THEN /\ last' = [out EXCEPT !.code = 404]
                /\ UNCHANGED inflight
           ELSE /\ Cardinality(DOMAIN inflight) < MaxInflight
                /\ last' = out
                /\ inflight' =
                     [r \in DOMAIN inflight \cup {nreq + 1} |->
                        IF r = nreq + 1
                        THEN [op |-> "putJob", caller |-> u, id |-> id,
                              body |-> Sanitize(b), oldStatus |-> job.status,
                              job |-> job]
                        ELSE inflight[r]]

\* PUT /api/jobs/:id from findByIdAndUpdate to the response
PutJobUpdate(rid, fails) ==
    LET r == inflight[rid]
        upd == CastJob(r.body)
        new == upd @@ jobs[r.id]
        out == [Outcome("putJob", "write", 0, r.caller, r.id, r.body)
                   EXCEPT !.before = DocOf(r.id)]
        changed == r.oldStatus # new.status
    IN  /\ rid \in DOMAIN inflight
        /\ r.op = "putJob"
        /\ inflight' = [q \in DOMAIN inflight \ {rid} |-> inflight[q]]
        /\ UNCHANGED <<nextJobId, creator, feedbacks, nextFbId, nreq, removed>>
        /\ IF JobUpdateErrors(upd) # {}
           THEN \* the update validators reject: caught, 500
                /\ last' = [out EXCEPT !.code = 500]
                /\ UNCHANGED <<jobs, emitted>>
           ELSE IF r.id \notin DOMAIN jobs
           THEN \* the update returns null; reading job.status throws: 500
                /\ last' = [out EXCEPT !.code = 500]
                /\ UNCHANGED <<jobs, emitted>>
           ELSE /\ jobs' = [jobs EXCEPT ![r.id] = new]
                /\ IF changed /\ fails
                   THEN /\ emitted' = emitted
                        /\ last' = [out EXCEPT !.code = 500, !.committed = TRUE,
                                               !.ioFailed = TRUE]
                   ELSE /\ emitted' = IF changed THEN Emit("job-status-updated")
                                      ELSE emitted
                        /\ last' = [out EXCEPT !.code = 200, !.committed = TRUE,
                                       !.data = new,
                                       !.event =
                                          IF changed
                                          THEN [name |-> "job-status-updated",
                                                oldStatus |-> r.oldStatus,
                                                newStatus |-> new.status]
                                          ELSE NoEvent]

\* DELETE /api/jobs/:id up to the await of findByIdAndDelete
DeleteJobFind(u, id) ==
    LET job == FindOwned(id, u)
        out == [Outcome("deleteJob", "find", 0, u, id, NoBody)
                   EXCEPT !.before = DocOf(id)]
    IN  /\ nreq < MaxReqs
        /\ nreq' = nreq + 1
        /\ UNCHANGED <<jobs, nextJobId, creator, feedbacks, nextFbId, emitted,
                       removed>>
        /\ IF ~Found(job)
           THEN /\ last' = [out EXCEPT !.code = 404]
                /\ UNCHANGED inflight
           ELSE /\ Cardinality(DOMAIN inflight) < MaxInflight
                /\ last' = out
                /\ inflight' =
                     [r \in DOMAIN inflight \cup {nreq + 1} |->
                        IF r = nreq + 1
                        THEN [op |-> "deleteJob", caller |-> u, id |-> id,
                              body |-> NoBody, oldStatus |-> job.status,
                              job |-> job]
                        ELSE inflight[r]]

\* DELETE /api/jobs/:id from findByIdAndDelete to the response
DeleteJobRemove(rid, fails) ==
    LET r == inflight[rid]
        out == [Outcome("deleteJob", "write", 0, r.caller, r.id, NoBody)
                   EXCEPT !.before = DocOf(r.id)]
        present == r.id \in DOMAIN jobs
    IN  /\ rid \in DOMAIN inflight
        /\ r.op = "deleteJob"
        /\ inflight' = [q \in DOMAIN inflight \ {rid} |-> inflight[q]]
        /\ jobs' = [i \in DOMAIN jobs \ {r.id} |-> jobs[i]]
        /\ removed' = IF present THEN removed + 1 ELSE removed
        /\ UNCHANGED <<nextJobId, creator, feedbacks, nextFbId, nreq>>
        /\ IF fails
           THEN /\ emitted' = emitted
                /\ last' = [out EXCEPT !.code = 500, !.committed = present,
                                       !.ioFailed = TRUE]
           ELSE /\ emitted' = Emit("job-deleted")
                /\ last' = [out EXCEPT !.code = 200, !.committed = present,
                               !.event = [name |-> "job-deleted", job |-> r.job]]

----------------------------------------------------------------------------
\* Specification of the /api/jobs handlers

NoOutcome == Outcome("none", "none", 0, "none", 0, NoBody)

Init ==
    /\ jobs = [i \in {} |-> NoDoc]
    /\ nextJobId = 1
    /\ creator = [i \in {} |-> "none"]
    /\ feedbacks = [i \in {} |-> NoDoc]
    /\ nextFbId = 1
    /\ inflight = [r \in {} |-> NoDoc]
    /\ nreq = 0
    /\ emitted = [e \in EventNames |-> 0]
    /\ removed = 0
    /\ last = NoOutcome

JobsNext(fails) ==
    \/ \E u \in Users, b \in JobBodies : PostJob(u, b, fails)
    \/ \E u \in Users, id \in JobIds : GetJob(u, id)
    \/ \E u \in Users, id \in JobIds, b \in JobBodies : PutJobFind(u, id, b)
    \/ \E rid \in DOMAIN inflight : PutJobUpdate(rid, fails)
    \/ \E u \in Users, id \in JobIds : DeleteJobFind(u, id)
    \/ \E rid \in DOMAIN inflight : DeleteJobRemove(rid, fails)

\* The publish primitive returns normally
Next == JobsNext(FALSE)

Spec == Init /\ [][Next]_vars

\* The publish primitive may throw
NextFaulty == \E fails \in BOOLEAN : JobsNext(fails)

SpecFaulty == Init /\ [][NextFaulty]_vars

----------------------------------------------------------------------------
\* Feedback: validation, schema and the request bodies

\* A decimal numeral whole.tenth, as sent in a body and as a stored Number
Num(w, t) == [whole |-> w, tenth |-> t]

NoNum == Num(0, 1)

\* The numeral a validator sees for the rating: not an integer when absent
RatingField(b) == IF Has(b, "rating") THEN b.rating ELSE NoNum

\* feedbackValidation with the rating rule left out
FeedbackValidationErrorsNoRating(b) ==
    (IF ~IsLength(Trim(StrField(b, "feedback")), 1, MaxFeedbackLen)
     THEN {"feedback"} ELSE {})
    \cup (IF Has(b, "name") /\ ~IsLength(Trim(b.name), 0, MaxNameLen)
          THEN {"name"} ELSE {})

\* feedbackValidation: the names of the fields whose rule fails
FeedbackValidationErrors(b) ==
    (IF ~IsLength(Trim(StrField(b, "feedback")), 1, MaxFeedbackLen)
     THEN {"feedback"} ELSE {})
    \cup (IF ~Has(b, "rating") \/ ~IsInt(RatingField(b), MinRating, MaxRating)
          THEN {"rating"} ELSE {})
    \cup (IF Has(b, "name") /\ ~IsLength(Trim(b.name), 0, MaxNameLen)
          THEN {"name"} ELSE {})

\* req.body after the chain's sanitizers (trim on feedback and name)
SanitizeFeedback(b) ==
    [f \in DOMAIN b |->
        IF f \in {"feedback", "name"} THEN Trim(b[f]) ELSE b[f]]

\* feedbackSchema's defaults
FeedbackDefaults ==
    [category |-> "general", isPublic |-> TRUE, status |-> "pending"]

\* feedbackSchema's validators on a new document: min and max bound the
\* Number, they do not ask for an integer
FeedbackCreateErrors(d) ==
    ({"feedback", "rating"} \ DOMAIN d)
    \cup {f \in DOMAIN d :
            \/ f = "feedback"
                 /\ (Length(d[f]) = 0 \/ Length(d[f]) > MaxFeedbackLen)
            \/ f = "name" /\ Length(d[f]) > MaxNameLen
            \/ f = "rating"
                 /\ (\/ d[f].whole < MinRating
                     \/ d[f].whole > MaxRating
                     \/ d[f].whole = MaxRating /\ d[f].tenth > 0)
            \/ f = "status" /\ d[f] \notin FeedbackStatuses}

FeedbackBase == [feedback |-> Str(0, 10), rating |-> Num(5, 0)]

RatingInputs ==
    {Num(MinRating - 1, 0), Num(MinRating, 0), Num(3, 0), Num(2, 5),
     Num(MaxRating, 0), Num(MaxRating, 5), Num(MaxRating + 1, 0)}

FeedbackBodies ==
    {[rating |-> r] @@ FeedbackBase : r \in RatingInputs}
    \cup {[feedback |-> Str(0, 10)],
          [feedback |-> Str(2, 0), rating |-> Num(4, 0)],
          [feedback |-> Str(1, MaxFeedbackLen), rating |-> Num(4, 0),
           isPublic |-> FALSE, name |-> Str(0, MaxNameLen)],
          [name |-> Str(0, MaxNameLen + 1)] @@ FeedbackBase}

FeedbackIds == 1..MaxFeedbacks

FbDocOf(id) == IF id \in DOMAIN feedbacks THEN feedbacks[id] ELSE NoDoc

----------------------------------------------------------------------------
\* /api/feedback and /api/admin/feedback handlers

\* POST /api/feedback
PostFeedback(b, fails) ==
    LET errs == FeedbackValidationErrors(b)
        doc == SanitizeFeedback(b) @@ FeedbackDefaults
        out == Outcome("postFeedback", "write", 0, "anonymous", nextFbId, b)
    IN  /\ nreq < MaxReqs
        /\ nreq' = nreq + 1
        /\ UNCHANGED <<jobs, nextJobId, creator, inflight, removed>>
        /\ IF errs # {}
           THEN /\ last' = [out EXCEPT !.stage = "validate", !.code = 400,
                                       !.errors = errs]
                /\ UNCHANGED <<feedbacks, nextFbId, emitted>>
           ELSE IF FeedbackCreateErrors(doc) # {}
           THEN /\ last' = [out EXCEPT !.code = 500]
                /\ UNCHANGED <<feedbacks, nextFbId, emitted>>
           ELSE /\ nextFbId <= MaxFeedbacks
                /\ feedbacks' = [i \in DOMAIN feedbacks \cup {nextFbId} |->
                                    IF i = nextFbId THEN doc ELSE feedbacks[i]]
                /\ nextFbId' = nextFbId + 1
                /\ IF fails
                   THEN /\ emitted' = emitted
                        /\ last' = [out EXCEPT !.code = 500, !.committed = TRUE,
                                               !.ioFailed = TRUE]
                   ELSE /\ emitted' = Emit("new-feedback")
                        /\ last' = [out EXCEPT !.code = 201, !.committed = TRUE,
                                       !.data = doc,
                                       !.event = [name |-> "new-feedback"]]

\* PUT /api/admin/feedback/:id/status
PutFeedbackStatus(id, status) ==
    LET out == [Outcome("putFeedbackStatus", "write", 0, "admin", id,
                        [status |-> status])
                   EXCEPT !.before = FbDocOf(id)]
    IN  /\ nreq < MaxReqs
        /\ nreq' = nreq + 1
        /\ UNCHANGED <<jobs, nextJobId, creator, nextFbId, inflight, emitted,
                       removed>>
        /\ IF status \notin FeedbackStatuses
           THEN /\ last' = [out EXCEPT !.stage = "validate", !.code = 400]
                /\ UNCHANGED feedbacks
           ELSE IF id \notin DOMAIN feedbacks
           THEN /\ last' = [out EXCEPT !.code = 404]
                /\ UNCHANGED feedbacks
           ELSE /\ feedbacks' = [feedbacks EXCEPT ![id].status = status]
                /\ last' = [out EXCEPT !.code = 200, !.committed = TRUE,
                                       !.data = feedbacks'[id]]

\* DELETE /api/admin/feedback/:id up to the await of findByIdAndDelete
DeleteFeedbackFind(id) ==
    LET out == [Outcome("deleteFeedback", "find", 0, "admin", id, NoBody)
                   EXCEPT !.before = FbDocOf(id)]
    IN  /\ nreq < MaxReqs
        /\ nreq' = nreq + 1
        /\ UNCHANGED <<jobs, nextJobId, creator, feedbacks, nextFbId, emitted,
                       removed>>
        /\ IF id \notin DOMAIN feedbacks
           THEN /\ last' = [out EXCEPT !.code = 404]
                /\ UNCHANGED inflight
           ELSE /\ Cardinality(DOMAIN inflight) < MaxInflight
                /\ last' = out
                /\ inflight' =
                     [r \in DOMAIN inflight \cup {nreq + 1} |->
                        IF r = nreq + 1
                        THEN [op |-> "deleteFeedback", caller |-> "admin",
                              id |-> id, body |-> NoBody,
                              oldStatus |-> feedbacks[id].status,
                              job |-> feedbacks[id]]
                        ELSE inflight[r]]

\* DELETE /api/admin/feedback/:id from findByIdAndDelete to the response
DeleteFeedbackRemove(rid) ==
    LET r == inflight[rid]
        out == [Outcome("deleteFeedback", "write", 0, r.caller, r.id, NoBody)
                   EXCEPT !.before = FbDocOf(r.id)]
    IN  /\ rid \in DOMAIN inflight
        /\ r.op = "deleteFeedback"
        /\ inflight' = [q \in DOMAIN inflight \ {rid} |-> inflight[q]]
        /\ feedbacks' = [i \in DOMAIN feedbacks \ {r.id} |-> feedbacks[i]]
        /\ last' = [out EXCEPT !.code = 200,
                               !.committed = r.id \in DOMAIN feedbacks]
        /\ UNCHANGED <<jobs, nextJobId, creator, nextFbId, nreq, emitted,
                       removed>>

NextFeedback ==
    \/ \E b \in FeedbackBodies, fails \in BOOLEAN : PostFeedback(b, fails)
    \/ \E id \in FeedbackIds, st \in FeedbackStatuses \cup {"archived"} :
          PutFeedbackStatus(id, st)
    \/ \E id \in FeedbackIds : DeleteFeedbackFind(id)
    \/ \E rid \in DOMAIN inflight : DeleteFeedbackRemove(rid)

SpecFeedback == Init /\ [][NextFeedback]_vars

----------------------------------------------------------------------------
\* Queries: find / sort / skip / limit / countDocuments / aggregate

\* A destructured query parameter with its default
Param(q, f, default) == IF Has(q, f) THEN q[f] ELSE default

MaxOf(S) == CHOOSE x \in S : \A y \in S : y <= x

MinOf(S) == CHOOSE x \in S : \A y \in S : x <= y

RECURSIVE SortDesc(_)
\* .sort({createdAt: -1}): _ids grow with createdAt
SortDesc(S) == IF S = {} THEN <<>> ELSE <<MaxOf(S)>> \o SortDesc(S \ {MaxOf(S)})

RECURSIVE SortAsc(_)
\* .sort({createdAt: 1})
SortAsc(S) == IF S = {} THEN <<>> ELSE <<MinOf(S)>> \o SortAsc(S \ {MinOf(S)})

RECURSIVE Skip(_, _)
\* .skip(n)
Skip(s, n) == IF n <= 0 \/ s = <<>> THEN s ELSE Skip(Tail(s), n - 1)

RECURSIVE Limit(_, _)
\* .limit(n), n >= 1
Limit(s, n) ==
    IF n <= 0 \/ s = <<>> THEN <<>> ELSE <<Head(s)>> \o Limit(Tail(s), n - 1)

\* A skip of page * limit, which drops the first page
PaginateFromPageZero(s, page, limit) == Limit(Skip(s, page * limit), limit * 1)

\* .limit(limit * 1).skip((page - 1) * limit) on the sorted matches
Paginate(s, page, limit) == Limit(Skip(s, (page - 1) * limit), limit * 1)

\* Math.ceil(total / limit), limit >= 1
Pages(total, limit) ==
    IF total % limit = 0 THEN total \div limit ELSE (total \div limit) + 1

\* `status && status !== 'all'`: the empty string is falsy
StatusFilterSet(q) == Has(q, "status") /\ q.status # "" /\ q.status # "all"

\* The filter of GET /api/jobs: {user, status?}
JobsQueryMatches(u, q) ==
    {i \in DOMAIN jobs :
        /\ jobs[i].user = u
        /\ StatusFilterSet(q) => jobs[i].status = q.status}

\* The filter of GET /api/admin/jobs without a search term: {status?}
AdminJobsQueryMatches(q) ==
    {i \in DOMAIN jobs : StatusFilterSet(q) => jobs[i].status = q.status}

\* The filter of GET /api/feedback/public: {isPublic: true, rating?}
PublicFeedbackMatches(q) ==
    {i \in DOMAIN feedbacks :
        /\ feedbacks[i].isPublic
        /\ Has(q, "rating") => feedbacks[i].rating = Num(q.rating, 0)}

\* The list envelope: count, total, pagination and data
ListOutcome(op, u, q, sorted, docs) ==
    LET page == Param(q, "page", DefaultPage)
        limit == Param(q, "limit", DefaultLimit)
        ids == Paginate(sorted, page, limit)
        total == Len(sorted)
    IN  [count |-> Len(ids), total |-> total, page |-> page,
         pages |-> Pages(total, limit), query |-> q,
         data |-> [k \in 1..Len(ids) |-> docs[ids[k]]]]
        @@ [Outcome(op, "find", 200, u, 0, NoBody) EXCEPT !.ids = ids]

\* $group: {_id: field, count: {$sum: 1}}: one group per value that occurs
GroupCount(docs, ids, field) ==
    [v \in {docs[i][field] : i \in ids} |->
        Cardinality({i \in ids : docs[i][field] = v})]

\* The seeded histogram of GET /api/jobs/stats/overview
SeedAndMerge(stats) ==
    [s \in JobStatuses \cup DOMAIN stats |->
        IF s \in DOMAIN stats THEN stats[s] ELSE 0]

RecentLimit == 5

----------------------------------------------------------------------------
\* The read-only handlers.  Each awaits its queries one after the other; with
\* no writer running beside them the queries see one store, and the handler
\* is one action.

PageParams == {<<>>} \cup {[page |-> p] : p \in 1..MaxPage}

LimitParams == {<<>>} \cup {[limit |-> l] : l \in 1..MaxLimit}

StatusParams ==
    {<<>>} \cup {[status |-> s] : s \in {"", "all", "interview"}}

OrderParams == {<<>>, [order |-> "asc"]}

RatingParams == {<<>>} \cup {[rating |-> r] : r \in {3, MaxRating}}

\* GET /api/jobs
GetJobs(u, q) ==
    LET m == JobsQueryMatches(u, q)
        sorted == IF Param(q, "order", "desc") = "desc"
                  THEN SortDesc(m) ELSE SortAsc(m)
    IN  /\ last' = ListOutcome("getJobs", u, q, sorted, jobs)
        /\ UNCHANGED <<jobs, nextJobId, creator, feedbacks, nextFbId, inflight,
                       nreq, emitted, removed>>

\* GET /api/admin/jobs
AdminGetJobs(q) ==
    /\ last' = ListOutcome("adminGetJobs", "admin", q,
                           SortDesc(AdminJobsQueryMatches(q)), jobs)
    /\ UNCHANGED <<jobs, nextJobId, creator, feedbacks, nextFbId, inflight,
                   nreq, emitted, removed>>

\* GET /api/feedback/public
GetPublicFeedback(q) ==
    /\ last' = ListOutcome("getPublicFeedback", "anonymous", q,
                           SortDesc(PublicFeedbackMatches(q)), feedbacks)
    /\ UNCHANGED <<jobs, nextJobId, creator, feedbacks, nextFbId, inflight,
                   nreq, emitted, removed>>

\* GET /api/jobs/stats/overview
StatsOverview(u) ==
    LET mine == {i \in DOMAIN jobs : jobs[i].user = u}
        stats == GroupCount(jobs, mine, "status")
    IN  /\ last' = [totalJobs |-> Cardinality(mine),
                    statusStats |-> SeedAndMerge(stats)]
                   @@ [Outcome("statsOverview", "find", 200, u, 0, NoBody)
                          EXCEPT !.ids = Limit(SortDesc(mine), RecentLimit)]
        /\ UNCHANGED <<jobs, nextJobId, creator, feedbacks, nextFbId, inflight,
                       nreq, emitted, removed>>

\* GET /api/admin/stats: the job and feedback counts and the two group-bys
AdminStats ==
    /\ last' = [totalJobs |-> Cardinality(DOMAIN jobs),
                totalFeedbacks |-> Cardinality(DOMAIN feedbacks),
                statusStats |-> GroupCount(jobs, DOMAIN jobs, "status"),
                ratingStats |-> GroupCount(feedbacks, DOMAIN feedbacks, "rating")]
               @@ [Outcome("adminStats", "find", 200, "admin", 0, NoBody)
                      EXCEPT !.ids = Limit(SortDesc(DOMAIN jobs), RecentLimit)]
    /\ UNCHANGED <<jobs, nextJobId, creator, feedbacks, nextFbId, inflight,
                   nreq, emitted, removed>>

\* The stores the queries run on: documents the POST handlers create
StoredJobs ==
    {[user |-> "u1"] @@ CastJob(BaseBody) @@ JobDefaults,
     [user |-> "u1"] @@ CastJob(InterviewBody) @@ JobDefaults,
     [user |-> "u2"] @@ CastJob(BaseBody) @@ JobDefaults}

StoredFeedbacks ==
    {FeedbackBase @@ FeedbackDefaults,
     [rating |-> Num(3, 0), isPublic |-> FALSE] @@ FeedbackBase
        @@ FeedbackDefaults}

InitQuery ==
    /\ \E n \in 0..MaxStore :
          /\ jobs \in [1..n -> StoredJobs]
          /\ nextJobId = n + 1
          /\ creator = [i \in 1..n |-> jobs[i].user]
    /\ \E n \in 0..MaxFeedbacks :
          /\ feedbacks \in [1..n -> StoredFeedbacks]
          /\ nextFbId = n + 1
    /\ inflight = [r \in {} |-> NoDoc]
    /\ nreq = 0
    /\ emitted = [e \in EventNames |-> 0]
    /\ removed = 0
    /\ last = NoOutcome

\* One request per store: the handlers write nothing, so a request that
\* follows another returns what it returns as the first one.
FirstRequest == last = NoOutcome

NextQuery ==
    \/ \E u \in Users, p \in PageParams, l \in LimitParams, s \in StatusParams,
          o \in OrderParams : FirstRequest /\ GetJobs(u, p @@ l @@ s @@ o)
    \/ \E p \in PageParams, l \in LimitParams, s \in StatusParams :
          FirstRequest /\ AdminGetJobs(p @@ l @@ s)
    \/ \E p \in PageParams, l \in LimitParams, r \in RatingParams :
          FirstRequest /\ GetPublicFeedback(p @@ l @@ r)
    \/ \E u \in Users : FirstRequest /\ StatsOverview(u)
    \/ FirstRequest /\ AdminStats

SpecQuery == InitQuery /\ [][NextQuery]_vars

----------------------------------------------------------------------------
\* Properties of the handlers.  `last` is the outcome of the step that led to
\* the state, `last.before` the target document before that step.

OwnerCalls == last.before # NoDoc /\ last.before.user = last.caller

OtherCalls == last.before # NoDoc /\ last.before.user # last.caller

\* C1: a PUT /jobs/:id by the owner that succeeds and changes the stored
\* status from A to B emits one 'job-status-updated' event carrying
\* oldStatus = A (the status stored right before the write) and
\* newStatus = B; one that leaves the stored status unchanged emits none.
C1_StatusChangeNotifies ==
    (last.op = "putJob" /\ last.stage = "write" /\ last.code = 200
        /\ OwnerCalls)
    => IF last.before.status # jobs[last.id].status
       THEN last.event = [name |-> "job-status-updated",
                          oldStatus |-> last.before.status,
                          newStatus |-> jobs[last.id].status]
       ELSE last.event = NoEvent

\* C2 as stated: GET, PUT and DELETE of another user's job each respond 404,
\* leave the job unchanged and emit nothing.
C2_OtherUsersJobIs404 ==
    (last.op \in {"getJob", "putJob", "deleteJob"} /\ last.code # 0
        /\ OtherCalls)
    => /\ last.code = 404
       /\ DocOf(last.id) = last.before
       /\ last.event = NoEvent

\* C2 as amended: when the job is another user's at the handler's ownership
\* lookup, GET and DELETE respond 404, PUT responds 400 if its body fails
\* jobValidation (which runs before the lookup) and 404 otherwise; the job
\* is left unchanged and nothing is emitted.
C2_OtherUsersJobIs404Or400 ==
    (last.op \in {"getJob", "putJob", "deleteJob"}
        /\ last.stage \in {"validate", "find"} /\ OtherCalls)
    => /\ last.code = IF last.op = "putJob"
                         /\ JobValidationErrors(last.body) # {}
                      THEN 400 ELSE 404
       /\ DocOf(last.id) = last.before
       /\ last.event = NoEvent
       /\ ~last.committed
       /\ \A r \in DOMAIN inflight :
             inflight[r].op \in {"putJob", "deleteJob"}
             => inflight[r].job.user = inflight[r].caller

\* C2's case: a PUT with a valid body on another user's job was answered 404
C2_Witness ==
    /\ last.op = "putJob" /\ last.stage = "find" /\ last.code = 404
    /\ OtherCalls
    /\ JobValidationErrors(last.body) = {}

\* C3: every stored job's owner is the caller that created it.
C3_OwnerIsCreator ==
    \A id \in DOMAIN jobs : jobs[id].user = creator[id]

\* C4: when the write is committed and the publish primitive then throws,
\* the handler still responds 200 or 201.
C4_PublishFailureSwallowed ==
    (last.committed /\ last.ioFailed) => last.code \in {200, 201}

\* C5: a PUT by the owner whose body is only {status: s}, s one of the five
\* statuses, responds 200, stores status s and leaves the other fields as
\* they were.
C5_StatusOnlyUpdate ==
    (last.op = "putJob" /\ last.body \in StatusOnlyBodies /\ OwnerCalls)
    => /\ last.code = 200
       /\ DocOf(last.id) = [last.before EXCEPT !.status = last.body.status]

\* The records a list request's filter matches, read off the store
Matching ==
    CASE last.op = "getJobs" ->
            {i \in DOMAIN jobs :
                /\ jobs[i].user = last.caller
                /\ (Has(last.query, "status")
                    /\ last.query.status \notin {"", "all"})
                   => jobs[i].status = last.query.status}
      [] last.op = "adminGetJobs" ->
            {i \in DOMAIN jobs :
                (Has(last.query, "status")
                 /\ last.query.status \notin {"", "all"})
                => jobs[i].status = last.query.status}
      [] OTHER ->
            {i \in DOMAIN feedbacks :
                /\ feedbacks[i].isPublic
                /\ Has(last.query, "rating")
                   => feedbacks[i].rating.whole = last.query.rating}

\* C6: a list response for limit L >= 1 and page p >= 1 has total = the
\* number of matching records, count = the length of data
\* = max(0, min(L, total - (p-1)*L)), and pages = ceil(total / L).
C6_Pagination ==
    last.op \in {"getJobs", "adminGetJobs", "getPublicFeedback"}
    => LET L == IF Has(last.query, "limit") THEN last.query.limit ELSE 10
           p == IF Has(last.query, "page") THEN last.query.page ELSE 1
           rest == last.total - (p - 1) * L
           want == IF rest <= 0 THEN 0 ELSE IF rest < L THEN rest ELSE L
       IN  /\ last.code = 200
           /\ last.total = Cardinality(Matching)
           /\ last.count = Len(last.data)
           /\ last.count = want
           /\ last.pages * L >= last.total
           /\ (last.pages - 1) * L < last.total
           /\ last.pages >= 0

\* C6's case: the second page of three matching records at limit 2 holds one
C6_Witness ==
    /\ last.op = "getJobs"
    /\ last.query = [page |-> 2, limit |-> 2]
    /\ last.total = 3 /\ last.count = 1 /\ last.pages = 2

\* C7: each job status distribution of a stats endpoint reports exactly the
\* five statuses, each with its number of matching jobs, 0 where there is none.
C7_StatusStatsZeroFilled ==
    last.op \in {"statsOverview", "adminStats"}
    => /\ DOMAIN last.statusStats = JobStatuses
       /\ \A s \in JobStatuses :
             last.statusStats[s] =
                Cardinality({i \in DOMAIN jobs :
                    /\ jobs[i].status = s
                    /\ last.op = "statsOverview" => jobs[i].user = last.caller})

\* C8: every stored Feedback has an integer rating in [1,5], and a POST
\* /feedback with rating 0 or 6 responds 400 with a rating error and stores
\* no record.
C8_RatingInvariant ==
    /\ \A id \in DOMAIN feedbacks :
          /\ feedbacks[id].rating.tenth = 0
          /\ feedbacks[id].rating.whole \in 1..5
    /\ (last.op = "postFeedback" /\ Has(last.body, "rating")
          /\ last.body.rating \in {Num(0, 0), Num(6, 0)})
       => /\ last.code = 400
          /\ "rating" \in last.errors
          /\ last.id \notin DOMAIN feedbacks
          /\ nextFbId = last.id

\* C8's case: with a record stored, a POST with rating 6 was answered 400
C8_Witness ==
    /\ DOMAIN feedbacks # {}
    /\ last.op = "postFeedback" /\ Has(last.body, "rating")
    /\ last.body.rating = Num(6, 0)
    /\ last.code = 400

\* C9: the number of 'job-deleted' events emitted equals the number of Job
\* records removed from the store.
C9_OneDeleteEventPerRemoval == emitted["job-deleted"] = removed

\* C10: a POST /jobs, or a PUT /jobs/:id by the owner, whose body violates a
\* declared Job constraint responds 400 with an errors list and leaves the
\* store unchanged.
C10_ConstraintViolationIs400 ==
    (/\ last.op \in {"postJob", "putJob"}
     /\ last.code # 0
     /\ last.op = "putJob" => OwnerCalls
     /\ JobCreateErrors(CastJob([user |-> last.caller] @@ last.body)
                        @@ JobDefaults) # {})
    => /\ last.code = 400
       /\ last.errors # {}
       /\ ~last.committed

\* C11: on GET /jobs and GET /admin/jobs, status 'all' or an omitted status
\* applies no status filter (every scoped job matches), and the empty string
\* as status does not return every scoped job.
C11_StatusFilterEdges ==
    last.op \in {"getJobs", "adminGetJobs"}
    => LET scoped == {i \in DOMAIN jobs :
                         last.op = "getJobs" => jobs[i].user = last.caller}
       IN  /\ (~Has(last.query, "status") \/ last.query.status = "all")
              => last.total = Cardinality(scoped)
           /\ (Has(last.query, "status") /\ last.query.status = ""
                  /\ scoped # {})
              => last.total < Cardinality(scoped)

\* C12: a PUT /jobs/:id with a body that passes validation whose target job
\* is absent, at the lookup or at the update write, responds 404 and emits
\* no notification; it never responds 500.
C12_AbsentJobIs404 ==
    (last.op = "putJob" /\ last.code # 0 /\ last.before = NoDoc
        /\ JobValidationErrors(last.body) = {}
        /\ JobUpdateErrors(CastJob(last.body)) = {})
    => /\ last.code = 404
       /\ last.event = NoEvent

====
